---- MODULE Spec2Model ----
(***************************************************************************)
(* Team-Generator (src/main.js): the pairing engine TeamConfigurations,    *)
(* its value classes Pairing and PossibleTeam, and the createTeams loop.   *)
(*                                                                         *)
(* Player identifiers are integers.  0 stands for an identifier that is    *)
(* present but falsy in JavaScript (the number 0 or the empty string ''),  *)
(* Undefined for a missing argument (undefined / null); every other        *)
(* identifier is truthy.  JavaScript arrays are 0-based, the sequences     *)
(* here are 1-based: index k of the source is index k+1 of the model, and  *)
(* indexOf's "not found" (-1) is 0.                                        *)
(***************************************************************************)
EXTENDS Integers, Sequences, FiniteSets

VARIABLES
    roster,        \* the argument given to new TeamConfigurations(players)
    players,       \* this.players
    teams,         \* this.teams
    memo,          \* this.memo
    possibleTeam,  \* outcome of the last `let possibleTeam = this._createTeam(...)`
    pc,            \* control position
    error,         \* which Error was thrown, "none" when none
    args,          \* <<a1, a2, b1, b2>>: arguments of two Pairing constructions
    pairings,      \* the Pairing objects constructed from args
    eq,            \* result of pairings[1].equals(pairings[2])
    returns        \* the values the calls of createTeams returned, in order

vars == <<roster, players, teams, memo, possibleTeam, pc, error, args, pairings, eq,
          returns>>

(***************************************************************************)
(* Bounds of the model and constants of the program                        *)
(***************************************************************************)
\* identifiers are 0..MaxId
MaxId == 8
\* rosters are Prefix extended by at most MaxTail further identifiers
MaxTail == 4
\* constraint states given from outside mark at most MaxUsed pairs ...
MaxUsed == 1
\* ... or leave at most MaxFree pairs unmarked
MaxFree == 1
\* createTeams is called at most MaxCalls times on one engine
MaxCalls == 2
\* the roster size the constructor demands
RosterSize == 8
\* a missing argument (undefined)
Undefined == -1

Ids == 0 .. MaxId
Prefix == <<1, 2, 3, 4, 5>>

Range(s) == {s[k] : k \in 1 .. Len(s)}

\* the rosters given to the constructor: Prefix with up to MaxTail further
\* identifiers after it or before it
IsRosterInput(r) ==
    \E n \in 0 .. MaxTail : \E t \in [1 .. n -> Ids] :
        r = Prefix \o t \/ r = t \o Prefix

(***************************************************************************)
(* Pairing                                                                 *)
(***************************************************************************)
\* JavaScript truthiness of an identifier: !p
Falsy(p) == p = Undefined \/ p = 0

\* the guard of Pairing's constructor
PairingThrows(p1, p2) == Falsy(p1) \/ Falsy(p2) \/ p1 = p2

\* the object a successful construction yields
Pairing(p1, p2) == [value |-> <<p1, p2>>]

\* _.xor: the values that are in exactly one of the two arrays
xor(a, b) == (Range(a) \ Range(b)) \cup (Range(b) \ Range(a))

\* variant: the members are compared position by position
equalsOrdered(this, otherPairing) == this.value = otherPairing.value

\* lines 37-39: no value is in exactly one of the two Pairings
equals(this, otherPairing) == xor(this.value, otherPairing.value) = {}

(***************************************************************************)
(* PossibleTeam; threw marks an exception that left _createTeam instead of *)
(* a returned PossibleTeam.                                                *)
(***************************************************************************)
PossibleTeam(possible, teamConfig) ==
    [possible |-> possible, configuration |-> teamConfig, threw |-> FALSE]

Thrown == [possible |-> FALSE, configuration |-> <<>>, threw |-> TRUE]

(***************************************************************************)
(* TeamConfigurations                                                      *)
(***************************************************************************)
\* Array.prototype.indexOf, 1-based; 0 when absent
indexOf(arr, x) ==
    IF x \in Range(arr)
    THEN CHOOSE k \in 1 .. Len(arr) :
            arr[k] = x /\ \A l \in 1 .. k - 1 : arr[l] # x
    ELSE 0

\* _.unique(players).length
uniqueLength(arr) == Cardinality(Range(arr))

\* variant: the size guard only rejects rosters that are too short
constructorErrorAtLeast(arr) ==
    IF uniqueLength(arr) # Len(arr) THEN "unique"
    ELSE IF Len(arr) < RosterSize THEN "size"
    ELSE "none"

\* the two guards of the constructor, in order
constructorError(arr) ==
    IF uniqueLength(arr) # Len(arr) THEN "unique"
    ELSE IF Len(arr) # RosterSize THEN "size"
    ELSE "none"

\* the zero-filled memo of the constructor
newMemo(n) == [i \in 1 .. n |-> [j \in 1 .. n |-> 0]]

RECURSIVE SumSeq(_)
\* row.reduce((a,b) => a+b, 0)
SumSeq(row) ==
    IF Len(row) = 0 THEN 0 ELSE row[1] + SumSeq(Tail(row))

\* variant: a row counts as finished one pairing early
_allTeamsGeneratedShort(m, pl) ==
    \A memoY \in 1 .. Len(m) : SumSeq(m[memoY]) >= Len(pl) - 2

\* lines 105-112: every row of memo sums to players.length - 1
_allTeamsGenerated(m, pl) ==
    \A memoY \in 1 .. Len(m) : SumSeq(m[memoY]) = Len(pl) - 1

RECURSIVE _updateMemoOneWay(_, _, _)
\* variant: only memo[p1Idx][p2Idx] is set
_updateMemoOneWay(m, pl, validTeam) ==
    IF Len(validTeam) = 0 THEN m
    ELSE LET p1Idx == indexOf(pl, validTeam[1].value[1])
             p2Idx == indexOf(pl, validTeam[1].value[2])
         IN  _updateMemoOneWay([m EXCEPT ![p1Idx][p2Idx] = 1], pl, Tail(validTeam))

RECURSIVE _updateMemo(_, _, _)
\* variant: the last pairing of validTeam is left out (pairIdx < length - 1)
_updateMemoSkipLast(m, pl, validTeam) ==
    IF Len(validTeam) = 0 THEN m
    ELSE _updateMemo(m, pl, SubSeq(validTeam, 1, Len(validTeam) - 1))

\* lines 93-100: both memo entries of every pairing of validTeam are set
_updateMemo(m, pl, validTeam) ==
    IF Len(validTeam) = 0 THEN m
    ELSE LET p1Idx == indexOf(pl, validTeam[1].value[1])
             p2Idx == indexOf(pl, validTeam[1].value[2])
             m1 == [m EXCEPT ![p1Idx][p2Idx] = 1]
             m2 == [m1 EXCEPT ![p2Idx][p1Idx] = 1]
         IN  _updateMemo(m2, pl, Tail(validTeam))

\* variant: the memo is read at [memoIdx1][memoIdx1]
lastIsRepeatDiagonal(team, m, pl) ==
    /\ Len(team) > 0
    /\ LET lastPairing == team[Len(team)]
           memoIdx1 == indexOf(pl, lastPairing.value[1])
       IN  m[memoIdx1][memoIdx1] # 0

\* lines 121-128: the last pairing of the partial team is a repeat pairing
lastIsRepeat(team, m, pl) ==
    /\ Len(team) > 0
    /\ LET lastPairing == team[Len(team)]
           memoIdx1 == indexOf(pl, lastPairing.value[1])
           memoIdx2 == indexOf(pl, lastPairing.value[2])
       IN  m[memoIdx1][memoIdx2] # 0

\* variant: the team is taken as complete while two players are left
teamCompleteEarly(choices) == Len(choices) <= 2

\* line 130: no player is left to choose
teamComplete(choices) == Len(choices) = 0

\* variant: only the first of the two players is removed
withoutFirstOnly(choices, a, b) == SelectSeq(choices, LAMBDA x : x # a)

RECURSIVE without(_, _, _)
\* _.without(choices, a, b)
without(choices, a, b) ==
    IF Len(choices) = 0 THEN <<>>
    ELSE IF choices[1] = a \/ choices[1] = b THEN without(Tail(choices), a, b)
    ELSE <<choices[1]>> \o without(Tail(choices), a, b)

RECURSIVE CandidatesFrom(_, _, _)
\* the index pairs from <<i, j>> on, player2Idx running inside player1Idx
CandidatesFrom(n, i, j) ==
    IF i > n - 1 THEN <<>>
    ELSE IF j > n THEN CandidatesFrom(n, i + 1, i + 2)
    ELSE <<<<i, j>>>> \o CandidatesFrom(n, i, j + 1)

\* the loop order for every number of choices, computed once
candidatesTable == [n \in 0 .. RosterSize + 1 |-> CandidatesFrom(n, 1, 2)]

Reverse(s) == [k \in 1 .. Len(s) |-> s[Len(s) + 1 - k]]

\* variant: both loops run downwards
candidatesDescending(n) == Reverse(candidatesTable[n])

\* lines 135-136: the index pairs <<player1Idx, player2Idx>> in loop order
candidates(n) == candidatesTable[n]

RECURSIVE _createTeam(_, _, _, _), tryFrom(_, _, _, _, _)

\* variant: the choices-empty check comes before the repeat check
_createTeamCompleteFirst(team, choices, m, pl) ==
    IF teamComplete(choices) THEN PossibleTeam(TRUE, team)
    ELSE IF lastIsRepeat(team, m, pl) THEN PossibleTeam(FALSE, <<>>)
    ELSE tryFrom(team, choices, m, pl, 1)

\* lines 120-148; m is this.memo and pl is this.players
_createTeam(team, choices, m, pl) ==
    IF lastIsRepeat(team, m, pl) THEN PossibleTeam(FALSE, <<>>)
    ELSE IF teamComplete(choices) THEN PossibleTeam(TRUE, team)
    ELSE tryFrom(team, choices, m, pl, 1)

\* variant: after a candidate that fails, the next candidate is skipped
tryFromSkipping(team, choices, m, pl, k) ==
    LET cands == candidates(Len(choices))
    IN  IF k > Len(cands) THEN PossibleTeam(FALSE, <<>>)
        ELSE LET c1 == choices[cands[k][1]]
                 c2 == choices[cands[k][2]]
             IN  IF PairingThrows(c1, c2) THEN Thrown
                 ELSE LET r == _createTeam(Append(team, Pairing(c1, c2)),
                                           without(choices, c1, c2), m, pl)
                      IN  IF r.threw \/ r.possible THEN r
                          ELSE tryFrom(team, choices, m, pl, k + 2)

\* the two nested loops of _createTeam from the k-th candidate on
tryFrom(team, choices, m, pl, k) ==
    LET cands == candidates(Len(choices))
    IN  IF k > Len(cands) THEN PossibleTeam(FALSE, <<>>)
        ELSE LET c1 == choices[cands[k][1]]
                 c2 == choices[cands[k][2]]
             IN  IF PairingThrows(c1, c2) THEN Thrown
                 ELSE LET newTeam == Append(team, Pairing(c1, c2))
                          newChoices == without(choices, c1, c2)
                          r == _createTeam(newTeam, newChoices, m, pl)
                      IN  IF r.threw \/ r.possible THEN r
                          ELSE tryFrom(team, choices, m, pl, k + 1)

RECURSIVE searchCalls(_, _, _, _), callsFrom(_, _, _, _, _)
\* the invocations of _createTeam made inside _createTeam(team, choices):
\* each with its arguments and the arguments of the invocation that made it
searchCalls(team, choices, m, pl) ==
    IF lastIsRepeat(team, m, pl) \/ teamComplete(choices) THEN {}
    ELSE callsFrom(team, choices, m, pl, 1)

\* the invocations made by the two nested loops from the k-th candidate on
callsFrom(team, choices, m, pl, k) ==
    LET cands == candidates(Len(choices))
    IN  IF k > Len(cands) THEN {}
        ELSE LET c1 == choices[cands[k][1]]
                 c2 == choices[cands[k][2]]
             IN  IF PairingThrows(c1, c2) THEN {}
                 ELSE LET newTeam == Append(team, Pairing(c1, c2))
                          newChoices == without(choices, c1, c2)
                          r == _createTeam(newTeam, newChoices, m, pl)
                          made == {[team |-> newTeam, choices |-> newChoices,
                                    callerTeam |-> team, callerChoices |-> choices]}
                                     \cup searchCalls(newTeam, newChoices, m, pl)
                      IN  IF r.threw \/ r.possible THEN made
                          ELSE made \cup callsFrom(team, choices, m, pl, k + 1)

(***************************************************************************)
(* Actions                                                                 *)
(***************************************************************************)
NoPairings == <<>>

\* new TeamConfigurations(roster)
constructor ==
    /\ pc = "new"
    /\ LET e == constructorError(roster)
       IN  IF e # "none"
           THEN /\ pc' = "thrown"
                /\ error' = e
                /\ UNCHANGED <<players, teams, memo>>
           ELSE /\ pc' = "loop"
                /\ teams' = <<>>
                /\ players' = roster
                /\ memo' = newMemo(Len(roster))
                /\ UNCHANGED error
    /\ UNCHANGED <<roster, possibleTeam, args, pairings, eq, returns>>

\* variant: the round is put in front (unshift)
pushFront(arr, x) == <<x>> \o arr

\* line 71: this.teams.push(configuration)
push(arr, x) == Append(arr, x)

\* a call of createTeams on the engine that an earlier call returned from
createTeamsCall ==
    /\ pc = "done"
    /\ Len(returns) < MaxCalls
    /\ pc' = "loop"
    /\ UNCHANGED <<roster, players, teams, memo, possibleTeam, error, args, pairings,
                   eq, returns>>

\* variant: the body runs before the loop test (do ... while)
createTeamsBodyFirst ==
    /\ pc = "loop"
    /\ LET r == _createTeam(<<>>, players, memo, players)
           teams2 == IF r.possible THEN push(teams, r.configuration) ELSE teams
           memo2 == IF r.possible THEN _updateMemo(memo, players, r.configuration)
                    ELSE memo
       IN  IF r.threw
           THEN /\ pc' = "thrown"
                /\ error' = "pairing"
                /\ possibleTeam' = "threw"
                /\ UNCHANGED <<teams, memo, returns>>
           ELSE /\ teams' = teams2
                /\ memo' = memo2
                /\ possibleTeam' = IF r.possible THEN "possible" ELSE "impossible"
                /\ IF _allTeamsGenerated(memo2, players)
                   THEN pc' = "done" /\ returns' = Append(returns, teams2)
                   ELSE UNCHANGED <<pc, returns>>
                /\ UNCHANGED error
    /\ UNCHANGED <<roster, players, args, pairings, eq>>

\* createTeams: the loop test and, when it fails to exit, one pass of the body
createTeams ==
    /\ pc = "loop"
    /\ IF _allTeamsGenerated(memo, players)
       THEN /\ pc' = "done"
            /\ returns' = Append(returns, teams)
            /\ UNCHANGED <<teams, memo, possibleTeam, error>>
       ELSE LET r == _createTeam(<<>>, players, memo, players)
            IN  IF r.threw
                THEN /\ pc' = "thrown"
                     /\ error' = "pairing"
                     /\ possibleTeam' = "threw"
                     /\ UNCHANGED <<teams, memo, returns>>
                ELSE IF r.possible
                THEN /\ teams' = push(teams, r.configuration)
                     /\ memo' = _updateMemo(memo, players, r.configuration)
                     /\ possibleTeam' = "possible"
                     /\ UNCHANGED <<pc, error, returns>>
                ELSE /\ possibleTeam' = "impossible"
                     /\ UNCHANGED <<pc, error, teams, memo, returns>>
    /\ UNCHANGED <<roster, players, args, pairings, eq>>

\* new Pairing(a1, a2) and new Pairing(b1, b2)
newPairings ==
    /\ pc = "new"
    /\ IF PairingThrows(args[1], args[2]) \/ PairingThrows(args[3], args[4])
       THEN /\ pc' = "thrown"
            /\ error' = "pairing"
            /\ UNCHANGED pairings
       ELSE /\ pc' = "paired"
            /\ pairings' = <<Pairing(args[1], args[2]), Pairing(args[3], args[4])>>
            /\ UNCHANGED error
    /\ UNCHANGED <<roster, players, teams, memo, possibleTeam, args, eq, returns>>

\* pairings[1].equals(pairings[2])
equalsCall ==
    /\ pc = "paired"
    /\ eq' = equals(pairings[1], pairings[2])
    /\ pc' = "compared"
    /\ UNCHANGED <<roster, players, teams, memo, possibleTeam, error, args, pairings,
                   returns>>

(***************************************************************************)
(* Specifications                                                          *)
(***************************************************************************)
\* construction from any roster of the family, then createTeams
Init ==
    /\ IsRosterInput(roster)
    /\ players = <<>>
    /\ teams = <<>>
    /\ memo = <<>>
    /\ possibleTeam = "unset"
    /\ pc = "new"
    /\ error = "none"
    /\ args = <<>>
    /\ pairings = NoPairings
    /\ eq = FALSE
    /\ returns = <<>>

Next == constructor \/ createTeams \/ createTeamsCall

Spec == Init /\ [][Next]_vars

\* two Pairing constructions from any arguments, then equals
PairingArgs == Ids \cup {Undefined}

InitPairing ==
    /\ args \in PairingArgs \X PairingArgs \X PairingArgs \X PairingArgs
    /\ roster = <<>>
    /\ players = <<>>
    /\ teams = <<>>
    /\ memo = <<>>
    /\ possibleTeam = "unset"
    /\ pc = "new"
    /\ error = "none"
    /\ pairings = NoPairings
    /\ eq = FALSE
    /\ returns = <<>>

NextPairing == newPairings \/ equalsCall

SpecPairing == InitPairing /\ [][NextPairing]_vars

\* createTeams on an engine whose memo was written from outside (memo is a
\* public field, _updateMemo a public method): any symmetric, zero-diagonal
\* matrix of the family
CanonicalRoster == [k \in 1 .. RosterSize |-> k]

\* the same roster with a falsy identifier in the last place
FalsyRoster == [CanonicalRoster EXCEPT ![RosterSize] = 0]

IndexPairs == {<<i, j>> \in (1 .. RosterSize) \X (1 .. RosterSize) : i < j}

memoOf(used) ==
    [i \in 1 .. RosterSize |-> [j \in 1 .. RosterSize |->
        IF <<i, j>> \in used \/ <<j, i>> \in used THEN 1 ELSE 0]]

\* the memos given from outside: at most MaxUsed pairs marked, or at most
\* MaxFree pairs not marked
IsMemoInput(m) ==
    \/ \E n \in 0 .. MaxUsed : \E f \in [1 .. n -> IndexPairs] :
          m = memoOf(Range(f))
    \/ \E n \in 0 .. MaxFree : \E f \in [1 .. n -> IndexPairs] :
          m = memoOf(IndexPairs \ Range(f))

InitAny ==
    /\ roster \in {CanonicalRoster, FalsyRoster}
    /\ players = roster
    /\ teams = <<>>
    /\ IsMemoInput(memo)
    /\ possibleTeam = "unset"
    /\ pc = "loop"
    /\ error = "none"
    /\ args = <<>>
    /\ pairings = NoPairings
    /\ eq = FALSE
    /\ returns = <<>>

NextAny == createTeams

SpecAny == InitAny /\ [][NextAny]_vars

(***************************************************************************)
(* Properties                                                              *)
(***************************************************************************)
\* the two members of a Pairing, as a set
Members(pairing) == {pairing.value[1], pairing.value[2]}

\* the positions <<round, pair>> of the schedule
Slots == {<<r, k>> \in (DOMAIN teams) \X (1 .. RosterSize) : k \in DOMAIN teams[r]}

Distinct(s) == \A i, j \in 1 .. Len(s) : i # j => s[i] # s[j]

\* C1: no unordered pair of players is the Pairing of two slots of the
\* schedule (two rounds, or twice in one round), and in the schedule that
\* createTeams returns every one of the 28 unordered pairs of the roster is
\* the Pairing of some slot.
C1_EveryPairExactlyOnce ==
    /\ \A s, t \in Slots :
          s # t => Members(teams[s[1]][s[2]]) # Members(teams[t[1]][t[2]])
    /\ pc = "done" =>
          \A a, b \in Range(players) :
             a # b => \E s \in Slots : Members(teams[s[1]][s[2]]) = {a, b}

C1_Witness ==
    /\ pc = "done"
    /\ Cardinality({Members(teams[s[1]][s[2]]) : s \in Slots}) = 28
    /\ players[8] # 8

\* C2: every round of the schedule has exactly 4 Pairings, any two of them
\* share no player, and together they hold exactly the players of the roster.
C2_RoundIsPartition ==
    \A r \in DOMAIN teams :
       /\ Len(teams[r]) = 4
       /\ \A k, l \in DOMAIN teams[r] :
             k # l => Members(teams[r][k]) \cap Members(teams[r][l]) = {}
       /\ \A k \in DOMAIN teams[r] : Cardinality(Members(teams[r][k])) = 2
       /\ UNION {Members(teams[r][k]) : k \in DOMAIN teams[r]} = Range(players)

C2_Witness == Len(teams) = 5 /\ pc = "loop"

\* C3: the schedule that createTeams returns has exactly 7 rounds.
C3_SevenRounds == pc = "done" => Len(teams) = 7

C3_Witness == pc = "done" /\ Len(teams) = 7 /\ Distinct(roster)

\* C4: whenever createTeams is at its loop test and the completion predicate
\* is false, the top-level search _createTeam([], players) returns
\* possible = true.
C4_SearchReturnsPossible ==
    (pc = "loop" /\ ~_allTeamsGenerated(memo, players))
        => _createTeam(<<>>, players, memo, players).possible

\* from the zero-filled memo no top-level search returns possible = false
SearchNeverImpossible == possibleTeam # "impossible"

\* C5: a top-level search that reports possible = false while the completion
\* predicate is false ends schedule generation in an error.
C5_FailedSearchIsError == possibleTeam = "impossible" => pc = "thrown"

\* C6: construction succeeds exactly for a roster of 8 distinct identifiers;
\* any other roster ends in a roster error and leaves no engine state.
C6_RosterValidation ==
    pc # "new" =>
        IF Len(roster) = 8 /\ Distinct(roster)
        THEN /\ error \notin {"unique", "size"}
             /\ players = roster
             /\ Len(memo) = 8
        ELSE /\ pc = "thrown"
             /\ error \in {"unique", "size"}
             /\ players = <<>> /\ teams = <<>> /\ memo = <<>>

C6_Witness ==
    /\ pc = "thrown"
    /\ Len(roster) = 9
    /\ Distinct(roster)
    /\ error = "size"

\* C8: the first round of the schedule pairs the roster in order:
\* (p1,p2), (p3,p4), (p5,p6), (p7,p8).
C8_FirstRoundInRosterOrder ==
    Len(teams) >= 1 =>
        teams[1] = <<Pairing(players[1], players[2]), Pairing(players[3], players[4]),
                     Pairing(players[5], players[6]), Pairing(players[7], players[8])>>

C8_Witness == Len(teams) = 1 /\ players[1] = 7

\* C9: createTeams never ends in the Pairing constructor's error on a roster
\* the constructor accepted.
C9_NoPairingErrorInCreateTeams ==
    (Len(roster) = 8 /\ Distinct(roster)) => error # "pairing"

\* C10: equals is true exactly when the two Pairings have the same two
\* members, whatever their order.
C10_EqualsIgnoresOrder ==
    pc = "compared" =>
        (eq <=> {args[1], args[2]} = {args[3], args[4]})

C10_Witness ==
    /\ pc = "compared"
    /\ eq
    /\ args[1] = args[4] /\ args[2] = args[3]

\* the top-level search of the current state
TopSearch == _createTeam(<<>>, players, memo, players)

\* createTeams is about to search: it stands at the loop test, which fails
Searching == pc = "loop" /\ ~_allTeamsGenerated(memo, players)

\* the roster indices of the two members of a Pairing
IndexPair(pairing) ==
    <<indexOf(players, pairing.value[1]), indexOf(players, pairing.value[2])>>

Unused(i, j) == memo[i][j] = 0

Min(S) == CHOOSE x \in S : \A y \in S : x <= y

RECURSIVE HasMatching(_)
\* the players with the indices R can be split into pairs that are all unused
HasMatching(R) ==
    \/ R = {}
    \/ /\ R # {}
       /\ LET a == Min(R)
          IN  \E b \in R \ {a} : Unused(a, b) /\ HasMatching(R \ {a, b})

LexLess(p, q) == p[1] < q[1] \/ (p[1] = q[1] /\ p[2] < q[2])

\* the indices not yet paired by the first k pairs of the round
Remaining(round, k) ==
    (1 .. Len(players)) \ UNION {{IndexPair(round[l])[1], IndexPair(round[l])[2]} : l \in 1 .. k}

\* the candidates of level k that the enumeration reaches before the pair
\* the round has there
EarlierCandidates(round, k) ==
    {c \in IndexPairs :
        /\ c[1] \in Remaining(round, k - 1)
        /\ c[2] \in Remaining(round, k - 1)
        /\ LexLess(c, IndexPair(round[k]))}

\* the round is a partition of the roster into 4 unused pairs, and at every
\* level no candidate before its pair can be completed to such a partition
IsFirstValidRound(round) ==
    /\ Len(round) = 4
    /\ \A k \in 1 .. 4 :
          /\ IndexPair(round[k]) \in IndexPairs
          /\ IndexPair(round[k])[1] \in Remaining(round, k - 1)
          /\ IndexPair(round[k])[2] \in Remaining(round, k - 1)
          /\ Unused(IndexPair(round[k])[1], IndexPair(round[k])[2])
          /\ \A c \in EarlierCandidates(round, k) :
                ~(Unused(c[1], c[2]) /\ HasMatching(Remaining(round, k - 1) \ {c[1], c[2]}))

\* C11: a top-level search that returns possible = true returns the first
\* partition of the roster into 4 unused pairs in the enumeration order (by
\* roster index, first index < second index, depth first).
C11_FirstValidRound ==
    Searching => (TopSearch.possible => IsFirstValidRound(TopSearch.configuration))

\* the search succeeds after passing over a candidate that is unused but
\* cannot be completed
C11_Witness ==
    /\ Searching
    /\ TopSearch.possible
    /\ \E k \in 1 .. 4 : \E c \in EarlierCandidates(TopSearch.configuration, k) :
          Unused(c[1], c[2])

\* C12: a top-level search returns possible = false, with an empty
\* configuration, exactly when the roster has no partition into 4 unused pairs.
C12_ImpossibleIffNoMatching ==
    Searching =>
        ((~TopSearch.threw /\ ~TopSearch.possible /\ TopSearch.configuration = <<>>)
            <=> ~HasMatching(1 .. Len(players)))

\* a top-level search that returns at all returns possible = false exactly
\* when there is no such partition
SearchCompleteUnlessThrown ==
    (Searching /\ ~TopSearch.threw) =>
        /\ TopSearch.possible <=> HasMatching(1 .. Len(players))
        /\ ~TopSearch.possible => TopSearch.configuration = <<>>

\* the invocations of _createTeam inside the top-level search
TopCalls == searchCalls(<<>>, players, memo, players)

UnusedPairing(pairing) == Unused(IndexPair(pairing)[1], IndexPair(pairing)[2])

\* C13: every invocation of _createTeam gets a partial round whose pairs
\* before the last are all unused (the last one is checked by the invocation
\* itself before anything else), and a round returned with possible = true
\* has no used pair.
C13_OnlyLastPairUnchecked ==
    Searching =>
        /\ \A c \in TopCalls :
              \A l \in 1 .. Len(c.team) - 1 : UnusedPairing(c.team[l])
        /\ TopSearch.possible =>
              \A l \in 1 .. Len(TopSearch.configuration) :
                 UnusedPairing(TopSearch.configuration[l])

\* the search succeeds although it was invoked with a complete round whose
\* last pair is used, and with a longer partial round whose last pair is used
C13_Witness ==
    /\ Searching
    /\ TopSearch.possible
    /\ \E c \in TopCalls : Len(c.team) = 4 /\ ~UnusedPairing(c.team[4])
    /\ \E c \in TopCalls : Len(c.team) = 2 /\ ~UnusedPairing(c.team[2])

\* the arguments of the top-level invocation
TopArguments == [team |-> <<>>, choices |-> players]

\* an invocation got its caller's partial round with one new Pairing of two
\* of the caller's choices at the end, and the caller's choices without these
\* two, in the caller's order; the caller's arguments are among given, the
\* arguments invocations were made with
DerivedFromCaller(c, given) ==
    LET p == c.team[Len(c.team)]
    IN  /\ c.team = c.callerTeam \o <<p>>
        /\ Cardinality(Members(p)) = 2
        /\ Members(p) \subseteq Range(c.callerChoices)
        /\ c.choices = SelectSeq(c.callerChoices, LAMBDA x : x \notin Members(p))
        /\ [team |-> c.callerTeam, choices |-> c.callerChoices] \in given

\* every invocation inside the top-level search works on values derived
\* from the arguments of the invocation that made it
CallsDerived ==
    LET made == TopCalls
        given == {[team |-> e.team, choices |-> e.choices] : e \in made}
                     \cup {TopArguments}
    IN  \A c \in made : DerivedFromCaller(c, given)

\* a pass of createTeams leaves players alone, changes memo and teams only
\* when its search returned possible = true, and every invocation inside the
\* search works on values derived from its caller's unchanged arguments
SearchFrame ==
    pc = "loop" =>
        /\ players' = players
        /\ (memo' # memo \/ teams' # teams) => (Searching /\ TopSearch.possible)
        /\ (Searching /\ ~TopSearch.possible) => (memo' = memo /\ teams' = teams)
        /\ Searching => CallsDerived

\* C14: a round search changes neither memo nor teams nor players, whether
\* it succeeds or fails; memo changes only in the pass that accepted a round;
\* a failed branch leaves its caller's partial round and choices as they were.
C14_SearchChangesNothing == [][SearchFrame]_vars

\* a top-level search failed after rounds had been committed
C14_Witness == possibleTeam = "impossible" /\ Len(teams) >= 1 /\ pc = "loop"

Symmetric(m) == \A i, j \in DOMAIN m : m[i][j] = m[j][i]

ZeroDiagonal(m) == \A i \in DOMAIN m : m[i][i] = 0

\* the index pairs of a round, in both orders
MarkedBy(round) ==
    UNION {{IndexPair(round[k]), <<IndexPair(round[k])[2], IndexPair(round[k])[1]>>} :
              k \in DOMAIN round}

\* memo changes by the commit of the round appended last: the entries of
\* its pairs, in both orders, become 1 and every other entry stays
CommitStep ==
    (pc = "loop" /\ memo' # memo) =>
        LET round == teams'[Len(teams')]
        IN  /\ Len(round) = 4
            /\ \A i, j \in DOMAIN memo :
                  memo'[i][j] = IF <<i, j>> \in MarkedBy(round) THEN 1 ELSE memo[i][j]

\* C15: memo is symmetric with a zero diagonal in every reachable state, and
\* committing a round sets memo[i][j] and memo[j][i] for each of its 4 pairs
\* and nothing else.
C15_MemoSymmetric ==
    [](Symmetric(memo) /\ ZeroDiagonal(memo)) /\ [][CommitStep]_vars

C15_Witness ==
    /\ Len(teams) = 2
    /\ memo[1][3] = 1 /\ memo[3][1] = 1
    /\ memo[1][4] = 0

\* the rounds of teams are the first rounds of teams', unchanged
Kept == \A r \in DOMAIN teams : r \in DOMAIN teams' /\ teams'[r] = teams[r]

AppendOnlyStep ==
    /\ Kept
    /\ pc = "loop" =>
          IF Searching /\ TopSearch.possible
          THEN teams' = teams \o <<TopSearch.configuration>>
          ELSE teams' = teams

\* C16: a successful round search appends exactly one round at the end of
\* teams, a failed one appends nothing, and a round once appended keeps its
\* position and content.
C16_AppendOnly == [][AppendOnlyStep]_vars

C16_Witness == possibleTeam = "impossible" /\ Len(teams) >= 2

\* the number of ones in row i of memo
RowCount(i) == Cardinality({j \in DOMAIN memo[i] : memo[i][j] = 1})

\* the pairs of roster indices that some round of teams holds, in both orders
MarkedByTeams == UNION {MarkedBy(teams[r]) : r \in DOMAIN teams}

\* C17: with k rounds committed every row of memo holds exactly k ones and
\* memo marks exactly the 4k pairs of these rounds; so the completion
\* predicate is true exactly when teams has 7 rounds.
C17_RowsCountRounds ==
    pc \in {"loop", "done"} =>
        /\ \A i \in DOMAIN memo : RowCount(i) = Len(teams)
        /\ \A i, j \in DOMAIN memo :
              memo[i][j] = IF <<i, j>> \in MarkedByTeams THEN 1 ELSE 0
        /\ Cardinality({c \in IndexPairs : memo[c[1]][c[2]] = 1}) = 4 * Len(teams)
        /\ _allTeamsGenerated(memo, players) <=> Len(teams) = 7

C17_Witness == pc = "loop" /\ Len(teams) = 3 /\ RowCount(8) = 3

\* every call of createTeams returned the same schedule of 7 rounds
ReturnsSame ==
    \A i \in DOMAIN returns : returns[i] = returns[1] /\ Len(returns[i]) = 7

\* once createTeams has returned, a further call searches nothing and
\* changes neither memo nor teams; what it returns is teams
AfterReturnStep ==
    Len(returns) >= 1 =>
        /\ teams' = teams
        /\ memo' = memo
        /\ possibleTeam' = possibleTeam
        /\ returns' # returns => returns' = returns \o <<teams>>

\* C18: createTeams called again on an engine whose schedule is complete
\* performs no round search, leaves memo and teams unchanged and returns the
\* same schedule of 7 rounds.
C18_CreateTeamsIdempotent == []ReturnsSame /\ [][AfterReturnStep]_vars

C18_Witness == Len(returns) = 2 /\ pc = "done" /\ possibleTeam = "possible"

====
